---- MODULE Spec2Model ----
(***************************************************************************)
(* Foodgram backend: the relation toggles (favorite, shopping cart,        *)
(* subscribe), the shopping-list aggregation and the recipe write path,    *)
(* modelled over the tables of foods/models.py.                            *)
(*                                                                         *)
(* The database runs in Django's default autocommit mode (settings.py      *)
(* sets no ATOMIC_REQUESTS and no handler opens transaction.atomic), so    *)
(* every ORM call below is one statement that commits on its own.          *)
(*   Spec      requests are served one at a time: one action per handler.  *)
(*   SpecShort the same in shorter runs; SpecCart the cart requests in     *)
(*             longer runs.                                                *)
(*   SpecRace  two workers serve requests at once: one action per ORM      *)
(*             statement of a handler.                                     *)
(***************************************************************************)
EXTENDS Integers, Sequences, FiniteSets, Bags, TLC

\* ---------------------------------------------------------------- bounds
MaxRecipes == 2      \* recipe ids handed out by the auto-increment key
MaxAmount == 2       \* amounts offered in a request (the field allows 1..32667)
MaxRequests == 3     \* requests served in one run of Spec
MaxShortRequests == 2 \* requests served in one run of SpecShort
MaxCartRequests == 5 \* requests served in one run of SpecCart
MaxRaceRequests == 3 \* requests started in one run of SpecRace

\* ---------------------------------------------------------------- fixture
\* Registered accounts (users/models.py User; registration is djoser's).
Users == {"ann", "bob"}

\* Rows of the Ingredient table: id -> (name, measurement_unit).  The table is
\* read-only for the API (IngredientViewSet is a ReadOnlyModelViewSet) and the
\* pair (name, measurement_unit) is unique (unique_ingredient).
Ingredient ==
    [i \in {1, 2} |->
        IF i = 1 THEN [name |-> "salt", measurement_unit |-> "g"]
                 ELSE [name |-> "salt", measurement_unit |-> "kg"]]

Ingredients == DOMAIN Ingredient

\* Rows of the Tag table (read-only for the API as well).
Tags == {"breakfast", "dinner"}

RecipeIds == 1..MaxRecipes
Amounts == 1..MaxAmount

\* ---------------------------------------------------------------- state
VARIABLES
    User,              \* User rows (ids)
    Recipe,            \* Recipe rows: [id, author]
    RecipeTags,        \* rows of the Recipe.tags link table: <<recipe, tag>>
    IngredientRecipe,  \* IngredientRecipe rows: bag of <<recipe, ingredient, amount>>
    Favorite,          \* Favorite rows: bag of <<user, recipe>>
    Cart,              \* Cart rows: bag of <<user, recipe>>
    Follow,            \* Follow rows: bag of <<user, following>>
    next_id,           \* next value of Recipe's auto-increment primary key
    response,          \* the response to the last request answered
    left,              \* requests the run may still start
    worker             \* SpecRace: the request each worker is in the middle of

tables == <<User, Recipe, RecipeTags, IngredientRecipe, Favorite, Cart,
            Follow, next_id>>
vars == <<User, Recipe, RecipeTags, IngredientRecipe, Favorite, Cart,
          Follow, next_id, response, left, worker>>

\* The database as one value, so that a handler is a function of it.
DB ==
    [User |-> User, Recipe |-> Recipe, RecipeTags |-> RecipeTags,
     IngredientRecipe |-> IngredientRecipe, Favorite |-> Favorite,
     Cart |-> Cart, Follow |-> Follow, next_id |-> next_id]

Commit(db) ==
    /\ User' = db.User
    /\ Recipe' = db.Recipe
    /\ RecipeTags' = db.RecipeTags
    /\ IngredientRecipe' = db.IngredientRecipe
    /\ Favorite' = db.Favorite
    /\ Cart' = db.Cart
    /\ Follow' = db.Follow
    /\ next_id' = db.next_id

\* ---------------------------------------------------------------- ORM
\* Exists with the test left out: the handler goes on to insert.
Exists_never(table, row) == FALSE

\* QuerySet.filter(...).exists() on a (user, target) table.
Exists(table, row) == CopiesIn(row, table) > 0

\* Insert on a table created without its UniqueConstraint.
Insert_unconstrained(table, row) ==
    [ok |-> TRUE, table |-> table (+) SetToBag({row})]

\* Model.objects.create(...) on a table whose UniqueConstraint covers the whole
\* row (unique_favorite, unique_cart, unique_following): the storage engine
\* rejects the INSERT of a pair that is already there (IntegrityError).
Insert(table, row) ==
    IF CopiesIn(row, table) > 0
        THEN [ok |-> FALSE, table |-> table]
        ELSE [ok |-> TRUE, table |-> table (+) SetToBag({row})]

\* GetAndDelete written with the user left out of the delete: every row of the
\* recipe goes, filter(recipe=recipe).delete().
GetAndDelete_recipe(table, row) ==
    IF CopiesIn(row, table) = 0
        THEN [found |-> "DoesNotExist", table |-> table]
        ELSE [found |-> "one",
              table |-> [x \in {y \in BagToSet(table) : y[2] # row[2]} |->
                            CopiesIn(x, table)]]

\* GetAndDelete written as filter(...).delete(), which raises nothing.
GetAndDelete_filter(table, row) ==
    [found |-> "one", table |-> table (-) SetToBag({row})]

\* Model.objects.get(...).delete(): get() raises DoesNotExist on no row and
\* MultipleObjectsReturned on several; delete() removes the one row found.
GetAndDelete(table, row) ==
    CASE CopiesIn(row, table) = 0 -> [found |-> "DoesNotExist", table |-> table]
      [] CopiesIn(row, table) = 1 -> [found |-> "one", table |-> table (-) SetToBag({row})]
      [] OTHER -> [found |-> "MultipleObjectsReturned", table |-> table]

\* RecipeExists with the lookup left out: every id passes.
RecipeExists_always(db, pk) == TRUE

\* Recipe.objects.get(id=pk) / Recipe.objects.filter(id=pk).exists()
RecipeExists(db, pk) == \E r \in db.Recipe : r.id = pk

Reply(db, status, body) == [db |-> db, status |-> status, body |-> body]

\* RecipeForUserSerializer: the compact projection of a recipe (its name, image
\* and cooking_time are not modelled: no handler here reads or compares them).
RecipeForUserSerializer(pk) == [id |-> pk]

\* ---------------------------------------------------------------- toggles
\* POST /recipes/{pk}/favorite/
favorite(db, user, pk) ==
    IF ~RecipeExists(db, pk)
        THEN Reply(db, "NotFound", "recipe")
    ELSE IF Exists(db.Favorite, <<user, pk>>)
        THEN Reply(db, "AlreadyExists", "favorite")
    ELSE LET ins == Insert(db.Favorite, <<user, pk>>) IN
        IF ins.ok
            THEN Reply([db EXCEPT !.Favorite = ins.table], "Created",
                       RecipeForUserSerializer(pk))
            ELSE Reply(db, "IntegrityError", "favorite")

\* DELETE /recipes/{pk}/favorite/
delete_favorite(db, user, pk) ==
    IF ~RecipeExists(db, pk)
        THEN Reply(db, "NotFound", "recipe")
    ELSE LET del == GetAndDelete(db.Favorite, <<user, pk>>) IN
        CASE del.found = "one" ->
                Reply([db EXCEPT !.Favorite = del.table], "NoContent", "favorite")
          [] del.found = "DoesNotExist" ->
                Reply(db, "NotPresent", "favorite")
          [] OTHER -> Reply(db, "MultipleObjectsReturned", "favorite")

\* POST /recipes/{pk}/shopping_cart/
shopping_cart(db, user, pk) ==
    IF ~RecipeExists(db, pk)
        THEN Reply(db, "NotFound", "recipe")
    ELSE IF Exists(db.Cart, <<user, pk>>)
        THEN Reply(db, "AlreadyExists", "cart")
    ELSE LET ins == Insert(db.Cart, <<user, pk>>) IN
        IF ins.ok
            THEN Reply([db EXCEPT !.Cart = ins.table], "Created",
                       RecipeForUserSerializer(pk))
            ELSE Reply(db, "IntegrityError", "cart")

\* DELETE /recipes/{pk}/shopping_cart/
delete_shopping_cart(db, user, pk) ==
    IF ~RecipeExists(db, pk)
        THEN Reply(db, "NotFound", "recipe")
    ELSE LET del == GetAndDelete(db.Cart, <<user, pk>>) IN
        CASE del.found = "one" ->
                Reply([db EXCEPT !.Cart = del.table], "NoContent", "cart")
          [] del.found = "DoesNotExist" ->
                Reply(db, "NotPresent", "cart")
          [] OTHER -> Reply(db, "MultipleObjectsReturned", "cart")

\* ---------------------------------------------------------------- follow
\* FollowSerializer(following).data, read when the Response is built.
FollowSerializer(db, user, following) ==
    [id |-> following,
     is_subscribed |-> Exists(db.Follow, <<user, following>>),
     recipes_count |-> Cardinality({r \in db.Recipe : r.author = following})]

\* subscribe without the test for the requesting user.
subscribe_self(db, user, id) ==
    IF id \notin db.User
        THEN Reply(db, "NotFound", "user")
    ELSE IF CopiesIn(<<user, id>>, db.Follow) > 0
        THEN Reply(db, "AlreadyExists", "follow")
    ELSE Reply([db EXCEPT !.Follow = @ (+) SetToBag({<<user, id>>})],
               "Created", "follow")

\* subscribe with the projection read before the row is inserted.
subscribe_eager(db, user, id) ==
    IF id \notin db.User
        THEN Reply(db, "NotFound", "user")
    ELSE IF user = id
        THEN Reply(db, "SelfReference", "follow")
    ELSE IF CopiesIn(<<user, id>>, db.Follow) > 0
        THEN Reply(db, "AlreadyExists", "follow")
    ELSE Reply([db EXCEPT !.Follow = @ (+) SetToBag({<<user, id>>})],
               "Created",
               [id |-> id,
                is_subscribed |-> CopiesIn(<<user, id>>, db.Follow) > 0,
                recipes_count |-> Cardinality({r \in db.Recipe : r.author = id})])

\* POST /users/{id}/subscribe/
subscribe(db, user, id) ==
    IF id \notin db.User
        THEN Reply(db, "NotFound", "user")
    ELSE IF user = id
        THEN Reply(db, "SelfReference", "follow")
    ELSE IF Exists(db.Follow, <<user, id>>)
        THEN Reply(db, "AlreadyExists", "follow")
    ELSE LET ins == Insert(db.Follow, <<user, id>>) IN
        IF ins.ok
            THEN LET after == [db EXCEPT !.Follow = ins.table] IN
                 Reply(after, "Created", FollowSerializer(after, user, id))
            ELSE Reply(db, "IntegrityError", "follow")

\* delete_subscribe written as filter(...).delete(): it answers 204 whether or
\* not there was a row.
delete_subscribe_quiet(db, user, id) ==
    IF id \notin db.User
        THEN Reply(db, "NotFound", "user")
    ELSE Reply([db EXCEPT !.Follow = @ (-) SetToBag({<<user, id>>})],
               "NoContent", "follow")

\* DELETE /users/{id}/subscribe/
delete_subscribe(db, user, id) ==
    IF id \notin db.User
        THEN Reply(db, "NotFound", "user")
    ELSE LET del == GetAndDelete(db.Follow, <<user, id>>) IN
        CASE del.found = "one" ->
                Reply([db EXCEPT !.Follow = del.table], "NoContent", "follow")
          [] del.found = "DoesNotExist" ->
                Reply(db, "NotPresent", "follow")
          [] OTHER -> Reply(db, "MultipleObjectsReturned", "follow")

\* ---------------------------------------------------------------- shopping list
\* SumOver as Count: the rows are counted, their amounts are not added.
SumOver_count(rows, bag) == Cardinality(rows)

RECURSIVE SumOver(_, _)
\* Sum('amount') over the rows of a bag: each row counts once per copy.
SumOver(rows, bag) ==
    IF rows = {} THEN 0
    ELSE LET row == CHOOSE x \in rows : TRUE IN
         row[3] * CopiesIn(row, bag) + SumOver(rows \ {row}, bag)

\* JoinCart without the user in the filter, recipe__cart__isnull=False: a row
\* comes out once per Cart row of anybody.
JoinCart_anyone(db, user) ==
    LET rows == BagToSet(db.IngredientRecipe)
        InCarts(pk) == {c \in BagToSet(db.Cart) : c[2] = pk}
    IN  [row \in {x \in rows : InCarts(x[1]) # {}} |->
            CopiesIn(row, db.IngredientRecipe) * Cardinality(InCarts(row[1]))]

\* IngredientRecipe.objects.filter(recipe__cart__user=user): the inner join of
\* IngredientRecipe with Cart on the recipe; a row comes out once per Cart row
\* it joins with.
JoinCart(db, user) ==
    LET rows == BagToSet(db.IngredientRecipe) IN
    [row \in {x \in rows : CopiesIn(<<user, x[1]>>, db.Cart) > 0} |->
        CopiesIn(row, db.IngredientRecipe) * CopiesIn(<<user, row[1]>>, db.Cart)]

\* GroupKey with the unit left out of values(): rows are grouped by name.
GroupKey_name(row) == <<Ingredient[row[2]].name, "">>

\* .values('ingredient__name', 'ingredient__measurement_unit')
GroupKey(row) == <<Ingredient[row[2]].name, Ingredient[row[2]].measurement_unit>>

\* .values(...).annotate(amount=Sum('amount')): GROUP BY the two values.
GroupBySum(joined) ==
    LET rows == DOMAIN joined
        keys == {GroupKey(row) : row \in rows}
    IN  {[ingredient__name |-> k[1],
          ingredient__measurement_unit |-> k[2],
          amount |-> SumOver({row \in rows : GroupKey(row) = k}, joined)]
         : k \in keys}

\* GET /recipes/download_shopping_cart/
download_shopping_cart(db, user) ==
    IF ~(\E row \in BagToSet(db.Cart) : row[1] = user)
        THEN Reply(db, "EmptyCart", "cart")
        ELSE Reply(db, "OK", GroupBySum(JoinCart(db, user)))

\* ---------------------------------------------------------------- recipe write
Range(seq) == {seq[k] : k \in DOMAIN seq}

\* validate without the test for an empty list: only a list left out fails
\* with MissingFields.
validate_emptyok(data) ==
    IF "ingredients" \notin DOMAIN data \/ "tags" \notin DOMAIN data
        THEN "MissingFields"
    ELSE IF \E j, k \in DOMAIN data.ingredients :
                j < k /\ data.ingredients[j].ingredient = data.ingredients[k].ingredient
        THEN "DuplicateIngredient"
    ELSE IF \E j, k \in DOMAIN data.tags : j < k /\ data.tags[j] = data.tags[k]
        THEN "DuplicateTag"
    ELSE "ok"

\* validate without the test for a repeated ingredient.
validate_repeats(data) ==
    IF "ingredients" \notin DOMAIN data \/ "tags" \notin DOMAIN data
        THEN "MissingFields"
    ELSE IF data.ingredients = <<>> \/ data.tags = <<>>
        THEN "MissingFields"
    ELSE IF \E j, k \in DOMAIN data.tags : j < k /\ data.tags[j] = data.tags[k]
        THEN "DuplicateTag"
    ELSE "ok"

\* RecipeWriteSerializer.validate(data).  data is the dict of the fields the
\* request carried: data['ingredients'] is a list of {ingredient, amount} and
\* data['tags'] a list of tags.  The first failing check decides the error.
validate(data) ==
    IF "ingredients" \notin DOMAIN data \/ "tags" \notin DOMAIN data
        THEN "MissingFields"
    ELSE IF data.ingredients = <<>> \/ data.tags = <<>>
        THEN "MissingFields"
    ELSE LET ingredients == data.ingredients
             tags == data.tags
             bad_i == {k \in DOMAIN ingredients :
                          \/ ingredients[k].ingredient \notin Ingredients
                          \/ \E j \in 1..(k - 1) :
                                ingredients[j].ingredient = ingredients[k].ingredient}
             bad_t == {k \in DOMAIN tags :
                          \/ tags[k] \notin Tags
                          \/ \E j \in 1..(k - 1) : tags[j] = tags[k]}
             first_i == CHOOSE k \in bad_i : \A j \in bad_i : k <= j
             first_t == CHOOSE k \in bad_t : \A j \in bad_t : k <= j
         IN  IF bad_i # {}
                 THEN IF ingredients[first_i].ingredient \notin Ingredients
                          THEN "UnknownIngredient"
                          ELSE "DuplicateIngredient"
             ELSE IF bad_t # {}
                 THEN IF tags[first_t] \notin Tags
                          THEN "UnknownTag"
                          ELSE "DuplicateTag"
             ELSE "ok"

\* IngredientRecipe.objects.bulk_create(ings): one INSERT of all the rows.  The
\* storage engine rejects it whole (IntegrityError) when a (recipe, ingredient)
\* pair would occur twice (unique_ingredient_in_recipe).
bulk_create(table, ings) ==
    IF \/ \E j, k \in DOMAIN ings :
            j < k /\ ings[j][1] = ings[k][1] /\ ings[j][2] = ings[k][2]
       \/ \E k \in DOMAIN ings : \E row \in BagToSet(table) :
            row[1] = ings[k][1] /\ row[2] = ings[k][2]
        THEN [ok |-> FALSE, table |-> table]
        ELSE [ok |-> TRUE, table |-> table (+) SetToBag(Range(ings))]

\* RecipeWriteSerializer.ingredient_recipe(ingredient, recipe)
ingredient_recipe(db, ingredient, recipe) ==
    LET ings == [k \in DOMAIN ingredient |->
                    <<recipe, ingredient[k].ingredient, ingredient[k].amount>>]
        ins == bulk_create(db.IngredientRecipe, ings)
    IN  [ok |-> ins.ok, db |-> [db EXCEPT !.IngredientRecipe = ins.table]]

\* ingredients_clear that also empties the recipe's other reverse relation,
\* instance.cart: the recipe leaves every cart.
ingredients_clear_cart(db, recipe) ==
    [db EXCEPT
        !.IngredientRecipe =
            [row \in {x \in BagToSet(@) : x[1] # recipe} |-> CopiesIn(row, @)],
        !.Cart = [row \in {x \in BagToSet(@) : x[2] # recipe} |-> CopiesIn(row, @)]]

\* ingredients_clear that deletes nothing.
ingredients_clear_nothing(db, recipe) == db

\* instance.ingredients.clear(): DELETE the recipe's IngredientRecipe rows.
ingredients_clear(db, recipe) ==
    LET keep == {row \in BagToSet(db.IngredientRecipe) : row[1] # recipe} IN
    [db EXCEPT !.IngredientRecipe =
        [row \in keep |-> CopiesIn(row, db.IngredientRecipe)]]

\* instance.tags.clear(): DELETE the recipe's tag links.
tags_clear(db, recipe) ==
    [db EXCEPT !.RecipeTags = {row \in @ : row[1] # recipe}]

\* instance.tags.set(tags): afterwards the recipe's links are exactly `tags`.
tags_set(db, recipe, tags) ==
    [db EXCEPT !.RecipeTags =
        {row \in @ : row[1] # recipe} \cup {<<recipe, t>> : t \in Range(tags)}]

\* Recipe.objects.create(author=user, ...): INSERT with the next primary key.
recipe_insert(db, user) ==
    [db EXCEPT !.Recipe = @ \cup {[id |-> db.next_id, author |-> user]},
               !.next_id = @ + 1]

\* RecipeReadSerializer(instance).data for the viewer `user`.
RecipeReadSerializer(db, user, pk) ==
    [id |-> pk,
     tags |-> {row[2] : row \in {x \in db.RecipeTags : x[1] = pk}},
     ingredients |->
        LET rows == {x \in BagToSet(db.IngredientRecipe) : x[1] = pk} IN
        {[id |-> row[2], amount |-> row[3],
          copies |-> CopiesIn(row, db.IngredientRecipe)] : row \in rows},
     is_favorited |-> Exists(db.Favorite, <<user, pk>>),
     is_in_shopping_cart |-> Exists(db.Cart, <<user, pk>>)]

\* RecipeWriteSerializer.create(validated_data), after is_valid().
create(db, user, data) ==
    LET v == validate(data) IN
    IF v # "ok" THEN Reply(db, v, "recipe")
    ELSE LET pk == db.next_id
             made == tags_set(recipe_insert(db, user), pk, data.tags)
             ins == ingredient_recipe(made, data.ingredients, pk)
         IN  IF ins.ok
                 THEN Reply(ins.db, "Created", RecipeReadSerializer(ins.db, user, pk))
                 ELSE Reply(ins.db, "IntegrityError", "recipe")

\* AuthorOrReadOnlyPermission.has_object_permission for an unsafe method.
AuthorOrReadOnlyPermission(db, user, pk) ==
    \E r \in db.Recipe : r.id = pk /\ r.author = user

\* RecipeWriteSerializer.update(instance, validated_data), after get_object()
\* and is_valid().
update(db, user, pk, data) ==
    IF ~RecipeExists(db, pk) THEN Reply(db, "NotFound", "recipe")
    ELSE IF ~AuthorOrReadOnlyPermission(db, user, pk)
        THEN Reply(db, "Forbidden", "recipe")
    ELSE LET v == validate(data) IN
    IF v # "ok" THEN Reply(db, v, "recipe")
    ELSE LET cleared == tags_clear(ingredients_clear(db, pk), pk)
             ins == ingredient_recipe(cleared, data.ingredients, pk)
             saved == tags_set(ins.db, pk, data.tags)
         IN  IF ins.ok
                 THEN Reply(saved, "OK", RecipeReadSerializer(saved, user, pk))
                 ELSE Reply(ins.db, "IntegrityError", "recipe")

\* ---------------------------------------------------------------- cascades
\* The rows `keep` of a table, each as often as the table holds it.
BagKeep(bag, keep) == [row \in keep |-> CopiesIn(row, bag)]

\* Recipe.delete(): on_delete=CASCADE on IngredientRecipe.recipe, Cart.recipe,
\* Favorite.recipe and the tag links.
recipe_delete(db, pks) ==
    [db EXCEPT
        !.Recipe = {r \in @ : r.id \notin pks},
        !.RecipeTags = {row \in @ : row[1] \notin pks},
        !.IngredientRecipe = BagKeep(@, {x \in BagToSet(@) : x[1] \notin pks}),
        !.Favorite = BagKeep(@, {x \in BagToSet(@) : x[2] \notin pks}),
        !.Cart = BagKeep(@, {x \in BagToSet(@) : x[2] \notin pks})]

\* DELETE /recipes/{pk}/
destroy(db, user, pk) ==
    IF ~RecipeExists(db, pk) THEN Reply(db, "NotFound", "recipe")
    ELSE IF ~AuthorOrReadOnlyPermission(db, user, pk)
        THEN Reply(db, "Forbidden", "recipe")
    ELSE Reply(recipe_delete(db, {pk}), "NoContent", "recipe")

\* user_delete whose cascade on Follow covers the user side only: the rows
\* in which the user is the one followed stay.
user_delete_follower(db, user) ==
    LET own == {r.id : r \in {x \in db.Recipe : x.author = user}}
        db1 == recipe_delete(db, own)
    IN  [db1 EXCEPT
            !.User = @ \ {user},
            !.Favorite = BagKeep(@, {x \in BagToSet(@) : x[1] # user}),
            !.Cart = BagKeep(@, {x \in BagToSet(@) : x[1] # user}),
            !.Follow = BagKeep(@, {x \in BagToSet(@) : x[1] # user})]

\* User.delete(): on_delete=CASCADE on Recipe.author, Cart.user, Favorite.user,
\* Follow.user and Follow.following.
user_delete(db, user) ==
    LET own == {r.id : r \in {x \in db.Recipe : x.author = user}}
        db1 == recipe_delete(db, own)
    IN  [db1 EXCEPT
            !.User = @ \ {user},
            !.Favorite = BagKeep(@, {x \in BagToSet(@) : x[1] # user}),
            !.Cart = BagKeep(@, {x \in BagToSet(@) : x[1] # user}),
            !.Follow = BagKeep(@, {x \in BagToSet(@) :
                                     x[1] # user /\ x[2] # user})]

\* ---------------------------------------------------------------- requests
Entries == [ingredient : Ingredients, amount : Amounts]
IngredientLists == UNION {[1..n -> Entries] : n \in 0..Cardinality(Ingredients)}
TagLists == UNION {[1..n -> Tags] : n \in 0..Cardinality(Tags)}

\* The request bodies of a recipe write: both lists, or one of them left out.
Payloads ==
    {[ingredients |-> i, tags |-> t] : i \in IngredientLists, t \in TagLists}
        \cup {[ingredients |-> i] : i \in IngredientLists}
        \cup {[tags |-> t] : t \in TagLists}

\* The recipe writes of SpecCart: valid ones that all carry the same tag.
PlainPayloads ==
    {data \in Payloads :
        /\ DOMAIN data = {"ingredients", "tags"}
        /\ validate(data) = "ok"
        /\ data.tags = <<"breakfast">>}

\* The recipe writes of SpecRace: one ingredient in the largest amount, one tag.
RacePayloads ==
    {data \in Payloads :
        /\ DOMAIN data = {"ingredients", "tags"}
        /\ validate(data) = "ok"
        /\ Len(data.tags) = 1
        /\ Len(data.ingredients) = 1
        /\ data.ingredients[1].amount = MaxAmount}

Workers == {"w1", "w2"}
Idle == [pc |-> "idle"]

Answer(op, status) == [op |-> op, status |-> status]

\* ------------------------------------------------- requests served whole
\* One request served start to end: its effect on the tables and its response.
Serve(op, user, out) ==
    /\ left > 0
    /\ user \in User
    /\ Commit(out.db)
    /\ response' = Answer(op, out.status)
    /\ left' = left - 1
    /\ UNCHANGED worker

PostFavorite ==
    \E user \in Users, pk \in RecipeIds :
        Serve("favorite", user, favorite(DB, user, pk))

DeleteFavorite ==
    \E user \in Users, pk \in RecipeIds :
        Serve("delete_favorite", user, delete_favorite(DB, user, pk))

PostShoppingCart ==
    \E user \in Users, pk \in RecipeIds :
        Serve("shopping_cart", user, shopping_cart(DB, user, pk))

DeleteShoppingCart ==
    \E user \in Users, pk \in RecipeIds :
        Serve("delete_shopping_cart", user, delete_shopping_cart(DB, user, pk))

\* The response of a download: its status and the number of rows of its list.
Listing(status, body) ==
    [op |-> "download_shopping_cart", status |-> status,
     rows |-> IF status = "OK" THEN Cardinality(body) ELSE 0]

DownloadShoppingCart ==
    \E user \in Users :
        LET out == download_shopping_cart(DB, user) IN
        /\ left > 0
        /\ user \in User
        /\ Commit(out.db)
        /\ response' = Listing(out.status, out.body)
        /\ left' = left - 1
        /\ UNCHANGED worker

PostSubscribe ==
    \E user \in Users, id \in Users :
        Serve("subscribe", user, subscribe(DB, user, id))

DeleteSubscribe ==
    \E user \in Users, id \in Users :
        Serve("delete_subscribe", user, delete_subscribe(DB, user, id))

PostRecipe ==
    \E user \in Users, data \in Payloads :
        /\ next_id <= MaxRecipes
        /\ Serve("create", user, create(DB, user, data))

PostPlainRecipe ==
    \E user \in Users, data \in PlainPayloads :
        /\ next_id <= MaxRecipes
        /\ Serve("create", user, create(DB, user, data))

PatchRecipe ==
    \E user \in Users, pk \in RecipeIds, data \in Payloads :
        Serve("update", user, update(DB, user, pk, data))

DeleteRecipe ==
    \E user \in Users, pk \in RecipeIds :
        Serve("destroy", user, destroy(DB, user, pk))

DeleteUser ==
    \E user \in Users :
        Serve("user_delete", user, Reply(user_delete(DB, user), "NoContent", "user"))

EmptyDatabase ==
    /\ User = Users
    /\ Recipe = {}
    /\ RecipeTags = {}
    /\ IngredientRecipe = EmptyBag
    /\ Favorite = EmptyBag
    /\ Cart = EmptyBag
    /\ Follow = EmptyBag
    /\ next_id = 1
    /\ response = Answer("none", "none")
    /\ worker = [w \in Workers |-> Idle]

Init == EmptyDatabase /\ left = MaxRequests

Next ==
    \/ PostFavorite
    \/ DeleteFavorite
    \/ PostShoppingCart
    \/ DeleteShoppingCart
    \/ DownloadShoppingCart
    \/ PostSubscribe
    \/ DeleteSubscribe
    \/ PostRecipe
    \/ PatchRecipe
    \/ DeleteRecipe
    \/ DeleteUser

Spec == Init /\ [][Next]_vars

\* The same requests in shorter runs, for the properties that range over every
\* recipe write in every state.
InitShort == EmptyDatabase /\ left = MaxShortRequests

SpecShort == InitShort /\ [][Next]_vars

\* The shopping cart at length: plain recipes, cart toggles and downloads.
InitCart == EmptyDatabase /\ left = MaxCartRequests

NextCart ==
    \/ PostPlainRecipe
    \/ PostShoppingCart
    \/ DeleteShoppingCart
    \/ DownloadShoppingCart

SpecCart == InitCart /\ [][NextCart]_vars

\* ------------------------------------------------- requests served by statement
\* Two workers, each serving one request at a time, statement by statement;
\* every statement commits on its own.  A handler's opening reads are one step:
\* SpecRace deletes no recipe and no user, so what get() found still holds when
\* the exists() that follows it runs.
Handler(op, db, user, target) ==
    CASE op = "favorite" -> favorite(db, user, target)
      [] op = "shopping_cart" -> shopping_cart(db, user, target)
      [] op = "subscribe" -> subscribe(db, user, target)
      [] op = "delete_favorite" -> delete_favorite(db, user, target)
      [] op = "delete_shopping_cart" -> delete_shopping_cart(db, user, target)
      [] op = "delete_subscribe" -> delete_subscribe(db, user, target)

Relation(op) ==
    CASE op \in {"favorite", "delete_favorite"} -> "Favorite"
      [] op \in {"shopping_cart", "delete_shopping_cart"} -> "Cart"
      [] op \in {"subscribe", "delete_subscribe"} -> "Follow"

Targets(op) ==
    IF op \in {"subscribe", "delete_subscribe"} THEN Users ELSE RecipeIds

Start(w) ==
    /\ worker[w] = Idle
    /\ left > 0
    /\ left' = left - 1

Goto(w, session) == worker' = [worker EXCEPT ![w] = session]

Finish(w, op, status) ==
    /\ worker' = [worker EXCEPT ![w] = Idle]
    /\ response' = Answer(op, status)

\* favorite / shopping_cart / subscribe up to the .exists() test.
AddCheck(w) ==
    \E op \in {"favorite", "shopping_cart", "subscribe"}, user \in User :
    \E target \in Targets(op) :
        LET status == Handler(op, DB, user, target).status IN
        /\ Start(w)
        /\ IF status = "Created"
               THEN /\ Goto(w, [pc |-> "create", op |-> op, user |-> user,
                                target |-> target])
                    /\ UNCHANGED response
               ELSE Finish(w, op, status)
        /\ UNCHANGED tables

\* Favorite / Cart / Follow .objects.create(...) and the Response after it.
AddCreate(w) ==
    LET s == worker[w]
        ins == Insert(DB[Relation(s.op)], <<s.user, s.target>>)
    IN  /\ s.pc = "create"
        /\ Commit([DB EXCEPT ![Relation(s.op)] = ins.table])
        /\ Finish(w, s.op, IF ins.ok THEN "Created" ELSE "IntegrityError")
        /\ UNCHANGED left

\* delete_favorite / delete_shopping_cart / delete_subscribe up to the .get().
RemoveGet(w) ==
    \E op \in {"delete_favorite", "delete_shopping_cart", "delete_subscribe"},
       user \in User :
    \E target \in Targets(op) :
        LET status == Handler(op, DB, user, target).status IN
        /\ Start(w)
        /\ IF status = "NoContent"
               THEN /\ Goto(w, [pc |-> "delete", op |-> op, user |-> user,
                                target |-> target, gone |-> FALSE])
                    /\ UNCHANGED response
               ELSE Finish(w, op, status)
        /\ UNCHANGED tables

\* instance.delete(): DELETE of the row that get() returned, by its primary
\* key; it removes nothing when the other worker has deleted that row since
\* (`gone`, also when the pair has been inserted again as a new row).
RemoveDelete(w) ==
    LET s == worker[w]
        row == <<s.user, s.target>>
        table == DB[Relation(s.op)]
        SameRow(o) == /\ o.pc = "delete"
                      /\ Relation(o.op) = Relation(s.op)
                      /\ <<o.user, o.target>> = row
    IN  /\ s.pc = "delete"
        /\ Commit([DB EXCEPT ![Relation(s.op)] =
                     IF s.gone THEN table ELSE table (-) SetToBag({row})])
        /\ worker' = [v \in Workers |->
                        IF v = w THEN Idle
                        ELSE IF SameRow(worker[v])
                            THEN [worker[v] EXCEPT !.gone = TRUE]
                            ELSE worker[v]]
        /\ response' = Answer(s.op, "NoContent")
        /\ UNCHANGED left

\* create(): is_valid(), then super().create() inserts the Recipe row ...
CreateRecipe(w) ==
    \E user \in User, data \in RacePayloads :
        /\ next_id <= MaxRecipes
        /\ Start(w)
        /\ Commit(recipe_insert(DB, user))
        /\ Goto(w, [pc |-> "tags_set", op |-> "create", user |-> user,
                    target |-> next_id, data |-> data])
        /\ UNCHANGED response

\* ... and sets its tags.
CreateTags(w) ==
    LET s == worker[w] IN
        /\ s.pc = "tags_set" /\ s.op = "create"
        /\ Commit(tags_set(DB, s.target, s.data.tags))
        /\ Goto(w, [s EXCEPT !.pc = "bulk_create"])
        /\ UNCHANGED <<response, left>>

\* update(): get_object(), is_valid(), then instance.ingredients.clear() ...
UpdateClear(w) ==
    \E user \in User, pk \in RecipeIds, data \in RacePayloads :
        LET status == update(DB, user, pk, data).status IN
        /\ Start(w)
        /\ IF status = "OK"
               THEN /\ Commit(ingredients_clear(DB, pk))
                    /\ Goto(w, [pc |-> "tags_clear", op |-> "update",
                                user |-> user, target |-> pk, data |-> data])
                    /\ UNCHANGED response
               ELSE /\ Finish(w, "update", status)
                    /\ UNCHANGED tables

\* ... instance.tags.clear() ...
UpdateTagsClear(w) ==
    LET s == worker[w] IN
        /\ s.pc = "tags_clear"
        /\ Commit(tags_clear(DB, s.target))
        /\ Goto(w, [s EXCEPT !.pc = "bulk_create"])
        /\ UNCHANGED <<response, left>>

\* ingredient_recipe(ingredients, recipe) of create() and of update(): an
\* IntegrityError ends the request where it stands.
BulkCreate(w) ==
    LET s == worker[w]
        ins == ingredient_recipe(DB, s.data.ingredients, s.target)
    IN  /\ s.pc = "bulk_create"
        /\ Commit(ins.db)
        /\ IF ~ins.ok THEN Finish(w, s.op, "IntegrityError")
           ELSE IF s.op = "create" THEN Finish(w, s.op, "Created")
           ELSE /\ Goto(w, [s EXCEPT !.pc = "tags_set"])
                /\ UNCHANGED response
        /\ UNCHANGED left

\* ... and super().update(): save() and tags.set().
UpdateSave(w) ==
    LET s == worker[w] IN
        /\ s.pc = "tags_set" /\ s.op = "update"
        /\ Commit(tags_set(DB, s.target, s.data.tags))
        /\ Finish(w, s.op, "OK")
        /\ UNCHANGED left

\* download_shopping_cart up to the current_user.cart.exists() test ...
DownloadCheck(w) ==
    \E user \in User :
        /\ Start(w)
        /\ IF \E row \in BagToSet(Cart) : row[1] = user
               THEN /\ Goto(w, [pc |-> "query", op |-> "download_shopping_cart",
                                user |-> user])
                    /\ UNCHANGED response
               ELSE /\ worker' = [worker EXCEPT ![w] = Idle]
                    /\ response' = Listing("EmptyCart", {})
        /\ UNCHANGED tables

\* ... and the aggregate query, whose rows the response lists as they come.
DownloadQuery(w) ==
    LET s == worker[w] IN
        /\ s.pc = "query"
        /\ worker' = [worker EXCEPT ![w] = Idle]
        /\ response' = Listing("OK", GroupBySum(JoinCart(DB, s.user)))
        /\ UNCHANGED <<tables, left>>

InitRace == EmptyDatabase /\ left = MaxRaceRequests

NextRace ==
    \E w \in Workers :
        \/ AddCheck(w)
        \/ AddCreate(w)
        \/ RemoveGet(w)
        \/ RemoveDelete(w)
        \/ CreateRecipe(w)
        \/ CreateTags(w)
        \/ UpdateClear(w)
        \/ UpdateTagsClear(w)
        \/ BulkCreate(w)
        \/ UpdateSave(w)
        \/ DownloadCheck(w)
        \/ DownloadQuery(w)

SpecRace == InitRace /\ [][NextRace]_vars

\* ================================================================ claims
RecipePks == {r.id : r \in Recipe}

AuthorOf(pk) == (CHOOSE r \in Recipe : r.id = pk).author

\* The recipe write requests that carry both lists, neither of them empty.
FullPayloads ==
    {data \in Payloads :
        /\ DOMAIN data = {"ingredients", "tags"}
        /\ data.ingredients # <<>>
        /\ data.tags # <<>>}

Repeats(seq) == \E j, k \in DOMAIN seq : j < k /\ seq[j] = seq[k]

\* C1 (Spec).  For every user and existing recipe, for Favorite and for Cart:
\* of two adds in a row the first is not NotFound and succeeds when the pair
\* had no row, the second fails with AlreadyExists, and the database after
\* both equals the database after the first alone.
C1_AddTwice ==
    \A user \in User, pk \in RecipePks :
        LET f1 == favorite(DB, user, pk)
            f2 == favorite(f1.db, user, pk)
            c1 == shopping_cart(DB, user, pk)
            c2 == shopping_cart(c1.db, user, pk)
        IN  /\ f1.status # "NotFound"
            /\ ~Exists(Favorite, <<user, pk>>) => f1.status = "Created"
            /\ f2.status = "AlreadyExists"
            /\ f2.db = f1.db
            /\ c1.status # "NotFound"
            /\ ~Exists(Cart, <<user, pk>>) => c1.status = "Created"
            /\ c2.status = "AlreadyExists"
            /\ c2.db = c1.db

\* A second add has been answered with AlreadyExists and the row is there once.
C1_Witness ==
    /\ response = Answer("favorite", "AlreadyExists")
    /\ \E row \in BagToSet(Favorite) : CopiesIn(row, Favorite) = 1

\* C2 (Spec).  For every user and existing recipe, removing a Favorite or Cart
\* row that is not there fails with NotPresent and leaves every table as it was.
C2_RemoveAbsent ==
    \A user \in User, pk \in RecipePks :
        /\ ~Exists(Favorite, <<user, pk>>) =>
              LET out == delete_favorite(DB, user, pk) IN
              out.status = "NotPresent" /\ out.db = DB
        /\ ~Exists(Cart, <<user, pk>>) =>
              LET out == delete_shopping_cart(DB, user, pk) IN
              out.status = "NotPresent" /\ out.db = DB

\* A remove of an existing recipe has been answered with NotPresent.
C2_Witness ==
    /\ response = Answer("delete_shopping_cart", "NotPresent")
    /\ Recipe # {}

\* C3 (SpecRace).  In every state, also while adds, removes, follows and
\* unfollows of two workers interleave, the Favorite, Cart and Follow tables
\* hold each (user, recipe) or (user, following) pair at most once.
C3_PairsUnique ==
    /\ \A row \in BagToSet(Favorite) : CopiesIn(row, Favorite) = 1
    /\ \A row \in BagToSet(Cart) : CopiesIn(row, Cart) = 1
    /\ \A row \in BagToSet(Follow) : CopiesIn(row, Follow) = 1

\* The storage engine has just rejected the second insert of a pair.
C3_Witness ==
    /\ response.status = "IntegrityError"
    /\ response.op \in {"favorite", "shopping_cart", "subscribe"}
    /\ Favorite # EmptyBag \/ Cart # EmptyBag \/ Follow # EmptyBag

\* C4 (SpecRace).  An add or a follow that loses the race for a pair is
\* answered with AlreadyExists: no such request ends with the storage engine's
\* IntegrityError unhandled.
C4_LoserAlreadyExists ==
    response.op \in {"favorite", "shopping_cart", "subscribe"} =>
        response.status # "IntegrityError"

\* C5 (SpecCart).  For every user with a non-empty cart the shopping list has
\* exactly one row for each (name, measurement unit) pair that occurs among the
\* ingredient associations of the recipes in the cart, no other row, and the
\* row's amount is the sum of the amounts of those associations.
CartRecipes(user) == {pk \in RecipePks : <<user, pk>> \in BagToSet(Cart)}

CartAssociations(user) ==
    {row \in BagToSet(IngredientRecipe) : row[1] \in CartRecipes(user)}

PairOf(row) == <<Ingredient[row[2]].name, Ingredient[row[2]].measurement_unit>>

RECURSIVE Total(_)
Total(rows) ==
    IF rows = {} THEN 0
    ELSE LET row == CHOOSE x \in rows : TRUE IN row[3] + Total(rows \ {row})

C5_ShoppingList ==
    \A user \in User :
        CartRecipes(user) # {} =>
            LET out == download_shopping_cart(DB, user)
                pairs == {PairOf(row) : row \in CartAssociations(user)}
                RowsOf(pair) ==
                    {x \in out.body :
                        <<x.ingredient__name, x.ingredient__measurement_unit>> = pair}
            IN  /\ out.status = "OK"
                /\ \A x \in out.body :
                      <<x.ingredient__name, x.ingredient__measurement_unit>> \in pairs
                /\ \A pair \in pairs :
                      /\ Cardinality(RowsOf(pair)) = 1
                      /\ \A x \in RowsOf(pair) :
                            x.amount = Total({row \in CartAssociations(user) :
                                                PairOf(row) = pair})

\* A list has been downloaded for a cart of two recipes that use the same
\* ingredient in different amounts, and its row carries their sum.
C5_Witness ==
    /\ response.op = "download_shopping_cart"
    /\ response.status = "OK"
    /\ response.rows = 1
    /\ \E user \in User, a, b \in Amounts :
          /\ a # b
          /\ CartRecipes(user) = {1, 2}
          /\ <<1, 1, a>> \in BagToSet(IngredientRecipe)
          /\ <<2, 1, b>> \in BagToSet(IngredientRecipe)
          /\ [ingredient__name |-> Ingredient[1].name,
              ingredient__measurement_unit |-> Ingredient[1].measurement_unit,
              amount |-> a + b] \in download_shopping_cart(DB, user).body

\* C6 (SpecRace).  The download fails with EmptyCart exactly when the user has
\* no Cart row, also right after the user's last Cart row is removed, and no
\* download is answered with success and an empty list.
C6_EmptyCart ==
    /\ \A user \in User :
          LET out == download_shopping_cart(DB, user) IN
          /\ out.status = "EmptyCart" <=> CartRecipes(user) = {}
          /\ \A pk \in RecipePks :
                CartRecipes(user) = {pk} =>
                    LET removed == delete_shopping_cart(DB, user, pk) IN
                    /\ removed.status = "NoContent"
                    /\ download_shopping_cart(removed.db, user).status = "EmptyCart"
    /\ (response.op = "download_shopping_cart" /\ response.status = "OK") =>
          response.rows > 0

\* C7 (Spec).  A user's follow of themselves fails with SelfReference in every
\* state and changes nothing, and no Follow row has its user as its following.
C7_NoSelfFollow ==
    /\ \A user \in User :
          LET out == subscribe(DB, user, user) IN
          out.status = "SelfReference" /\ out.db = DB
    /\ \A row \in BagToSet(Follow) : row[1] # row[2]

\* A self-follow has been refused while Follow rows exist.
C7_Witness ==
    /\ response = Answer("subscribe", "SelfReference")
    /\ Follow # EmptyBag

Written(data) ==
    {[id |-> data.ingredients[k].ingredient,
      amount |-> data.ingredients[k].amount,
      copies |-> 1] : k \in DOMAIN data.ingredients}

C9_RoundTrip ==
    \A user \in User, data \in FullPayloads :
        validate(data) = "ok" =>
            LET made == create(DB, user, data)
                read == RecipeReadSerializer(made.db, user, next_id)
            IN  /\ made.status = "Created"
                /\ made.body = read
                /\ read.ingredients = Written(data)
                /\ read.tags = Range(data.tags)
                /\ \A pk \in RecipePks :
                      AuthorOf(pk) = user =>
                          LET out == update(DB, user, pk, data)
                              back == RecipeReadSerializer(out.db, user, pk)
                          IN  /\ out.status = "OK"
                              /\ out.body = back
                              /\ back.ingredients = Written(data)
                              /\ back.tags = Range(data.tags)

\* An update has succeeded on a recipe.
C9_Witness ==
    /\ response = Answer("update", "OK")
    /\ \E pk \in RecipePks :
          /\ \E row \in BagToSet(IngredientRecipe) : row[1] = pk
          /\ \E row \in RecipeTags : row[1] = pk

\* C10 (SpecRace).  No state holds a Recipe row without IngredientRecipe rows:
\* a recipe write happens whole or not at all.
C10_NoPartialRecipe ==
    \A pk \in RecipePks : \E row \in BagToSet(IngredientRecipe) : row[1] = pk

\* C11 (Spec).  For every user and every id that no recipe has, favorite,
\* shopping_cart, delete_favorite and delete_shopping_cart answer NotFound and
\* leave the database as it was, whatever rows the tables hold; the answer is
\* NotFound, not AlreadyExists or NotPresent, also when the table is made to
\* hold a row for that very pair.
C11_NotFoundFirst ==
    \A user \in User, pk \in RecipeIds \ RecipePks :
        LET dangling == [DB EXCEPT !.Favorite = @ (+) SetToBag({<<user, pk>>}),
                                   !.Cart = @ (+) SetToBag({<<user, pk>>})]
            Refused(out, db) == out.status = "NotFound" /\ out.db = db
        IN  /\ Refused(favorite(DB, user, pk), DB)
            /\ Refused(shopping_cart(DB, user, pk), DB)
            /\ Refused(delete_favorite(DB, user, pk), DB)
            /\ Refused(delete_shopping_cart(DB, user, pk), DB)
            /\ Refused(favorite(dangling, user, pk), dangling)
            /\ Refused(shopping_cart(dangling, user, pk), dangling)
            /\ Refused(delete_favorite(dangling, user, pk), dangling)
            /\ Refused(delete_shopping_cart(dangling, user, pk), dangling)

\* A remove naming an id without a recipe has been answered NotFound while
\* another recipe exists and is in a cart.
C11_Witness ==
    /\ response = Answer("delete_shopping_cart", "NotFound")
    /\ Recipe # {}
    /\ Cart # EmptyBag

\* C12 (Spec).  For every user and recipe: a successful favorite or
\* shopping_cart adds one copy of the row (user, recipe) to its table and a
\* successful delete_favorite or delete_shopping_cart takes one copy of it
\* away; every other row of that table keeps its count and every other table
\* is as it was.
C12_OneRow ==
    \A user \in User, pk \in RecipePks :
        LET row == <<user, pk>>
            Frame(out, rel, delta) ==
                /\ \A x \in BagToSet(DB[rel]) \cup BagToSet(out.db[rel]) \cup {row} :
                      CopiesIn(x, out.db[rel]) =
                          CopiesIn(x, DB[rel]) + (IF x = row THEN delta ELSE 0)
                /\ \A other \in (DOMAIN DB) \ {rel} : out.db[other] = DB[other]
            Adds(out, rel) == out.status = "Created" => Frame(out, rel, 1)
            Removes(out, rel) == out.status = "NoContent" => Frame(out, rel, -1)
        IN  /\ Adds(favorite(DB, user, pk), "Favorite")
            /\ Adds(shopping_cart(DB, user, pk), "Cart")
            /\ Removes(delete_favorite(DB, user, pk), "Favorite")
            /\ Removes(delete_shopping_cart(DB, user, pk), "Cart")

\* A favorite has been removed from a database that holds other rows.
C12_Witness ==
    /\ response = Answer("delete_favorite", "NoContent")
    /\ Recipe # {}
    /\ IngredientRecipe # EmptyBag

\* C13 (Spec).  The projection that a successful subscribe returns has
\* is_subscribed = TRUE: it is the projection of the database with the new
\* Follow row, where the projection of the database before it says FALSE.
C13_IsSubscribed ==
    \A user \in User, id \in User :
        LET out == subscribe(DB, user, id) IN
        out.status = "Created" =>
            /\ out.body.is_subscribed = TRUE
            /\ out.body = FollowSerializer(out.db, user, id)
            /\ FollowSerializer(DB, user, id).is_subscribed = FALSE

\* A follow has succeeded.
C13_Witness ==
    /\ response = Answer("subscribe", "Created")
    /\ \E row \in BagToSet(Follow) : row[1] # row[2]

\* C14 (Spec).  For distinct existing users: subscribe succeeds exactly when
\* the pair has no Follow row and then leaves it with one, and otherwise fails
\* with AlreadyExists; delete_subscribe succeeds exactly when the pair has a
\* row and then leaves it with none, and otherwise fails with NotPresent; a
\* failing call leaves the database as it was.
C14_FollowToggle ==
    \A user \in User : \A id \in User \ {user} :
        LET row == <<user, id>>
            has == CopiesIn(row, Follow) > 0
            f == subscribe(DB, user, id)
            u == delete_subscribe(DB, user, id)
        IN  /\ f.status = "Created" <=> ~has
            /\ f.status = "Created" => CopiesIn(row, f.db.Follow) = 1
            /\ f.status # "Created" => f.status = "AlreadyExists" /\ f.db = DB
            /\ u.status = "NoContent" <=> has
            /\ u.status = "NoContent" => CopiesIn(row, u.db.Follow) = 0
            /\ u.status # "NoContent" => u.status = "NotPresent" /\ u.db = DB

\* An unfollow of somebody not followed has been refused while the user
\* follows, or is followed by, somebody.
C14_Witness ==
    /\ response = Answer("delete_subscribe", "NotPresent")
    /\ Follow # EmptyBag

\* C15 (SpecShort).  A create, or an update of one's own recipe, whose request
\* leaves out the ingredient list or the tag list, or carries either of them
\* empty, fails with MissingFields and leaves the database as it was.
C15_MissingFields ==
    \A user \in User, data \in Payloads \ FullPayloads :
        LET made == create(DB, user, data) IN
        /\ made.status = "MissingFields"
        /\ made.db = DB
        /\ \A pk \in RecipePks :
              AuthorOf(pk) = user =>
                  LET out == update(DB, user, pk, data) IN
                  out.status = "MissingFields" /\ out.db = DB

\* An update of an existing recipe has been refused with MissingFields.
C15_Witness ==
    /\ response = Answer("update", "MissingFields")
    /\ \E row \in BagToSet(IngredientRecipe) : row[1] \in RecipePks

\* C16 (Spec).  Deleting a recipe leaves no association, tag link, Favorite or
\* Cart row of it; deleting a user leaves none of the user's recipes and no
\* Favorite, Cart or Follow row that names the user on either side; and in
\* every state each association and relation row names an existing recipe,
\* ingredient and user, and each recipe an existing author.
NoRowOfRecipe(db, pk) ==
    /\ \A r \in db.Recipe : r.id # pk
    /\ \A row \in db.RecipeTags : row[1] # pk
    /\ \A row \in BagToSet(db.IngredientRecipe) : row[1] # pk
    /\ \A row \in BagToSet(db.Favorite) \cup BagToSet(db.Cart) : row[2] # pk

C16_Cascade ==
    /\ \A r \in Recipe : r.author \in User
    /\ \A row \in RecipeTags : row[1] \in RecipePks
    /\ \A row \in BagToSet(IngredientRecipe) :
          row[1] \in RecipePks /\ row[2] \in Ingredients
    /\ \A row \in BagToSet(Favorite) \cup BagToSet(Cart) :
          row[1] \in User /\ row[2] \in RecipePks
    /\ \A row \in BagToSet(Follow) : row[1] \in User /\ row[2] \in User
    /\ \A pk \in RecipePks :
          LET out == destroy(DB, AuthorOf(pk), pk) IN
          out.status = "NoContent" /\ NoRowOfRecipe(out.db, pk)
    /\ \A user \in User :
          LET db == user_delete(DB, user) IN
          /\ user \notin db.User
          /\ \A r \in Recipe : r.author = user => NoRowOfRecipe(db, r.id)
          /\ \A row \in BagToSet(db.Favorite) \cup BagToSet(db.Cart) :
                row[1] # user
          /\ \A row \in BagToSet(db.Follow) : row[1] # user /\ row[2] # user

\* A user has been deleted and no recipe is left of those that were written.
C16_Witness ==
    /\ response = Answer("user_delete", "NoContent")
    /\ next_id > 1
    /\ Recipe = {}
    /\ IngredientRecipe = EmptyBag

\* C17 (SpecCart).  For every user, the rows and totals that the query yields
\* by grouping the cart's associations on (ingredient name, measurement unit)
\* are those obtained by grouping them on the ingredient id, the Ingredient
\* table holding each (name, measurement unit) pair once.
GroupByIdSum(joined) ==
    LET rows == DOMAIN joined IN
    {[ingredient__name |-> Ingredient[i].name,
      ingredient__measurement_unit |-> Ingredient[i].measurement_unit,
      amount |-> SumOver({row \in rows : row[2] = i}, joined)]
     : i \in {row[2] : row \in rows}}

C17_GroupById ==
    /\ \A i, j \in Ingredients : Ingredient[i] = Ingredient[j] => i = j
    /\ \A user \in User :
          LET out == download_shopping_cart(DB, user) IN
          /\ GroupBySum(JoinCart(DB, user)) = GroupByIdSum(JoinCart(DB, user))
          /\ out.status = "OK" => out.body = GroupByIdSum(JoinCart(DB, user))

\* A list of two rows has been downloaded for a cart whose recipes use both
\* ingredients, which share their name and differ in their unit.
C17_Witness ==
    /\ response.op = "download_shopping_cart"
    /\ response.status = "OK"
    /\ response.rows = 2
    /\ \E user \in User :
          {row[2] : row \in CartAssociations(user)} = Ingredients

\* C18 (Spec).  Every step that serves a recipe create, a recipe update or a
\* shopping-list download, whatever its request body and its outcome, leaves
\* the Favorite, Cart and Follow tables exactly as they were: a recipe stays
\* favorited and in the cart across its update.
C18_RelationsKept ==
    [][response'.op \in {"create", "update", "download_shopping_cart"} =>
          /\ Favorite' = Favorite
          /\ Cart' = Cart
          /\ Follow' = Follow]_vars

\* A recipe that is somebody's favorite and in somebody's cart has been
\* updated.
C18_Witness ==
    /\ response = Answer("update", "OK")
    /\ \E pk \in RecipePks :
          \/ \E row \in BagToSet(Favorite) : row[2] = pk
          \/ \E row \in BagToSet(Cart) : row[2] = pk

\* C19 (SpecCart).  For every user, the download answers the same, status and
\* list, in every database that has the user's own Cart rows and the current
\* recipes and associations, whatever Cart rows the other users have (also for
\* the same recipes) and whatever the Favorite and Follow tables hold; and the
\* join yields each association of a recipe in the cart once.
OthersCarts(user) == SUBSET {<<other, pk>> : other \in User \ {user}, pk \in RecipePks}

RelationFills == {{}, {<<u, pk>> : u \in User, pk \in RecipePks}}

C19_OwnCartOnly ==
    \A user \in User :
        LET mine == {x \in BagToSet(Cart) : x[1] = user}
            out == download_shopping_cart(DB, user)
        IN  /\ \A others \in OthersCarts(user), favs \in RelationFills :
                  \A follows \in SUBSET {p \in User \X User : p[1] # p[2]} :
                      LET db == [DB EXCEPT !.Cart = SetToBag(mine \cup others),
                                           !.Favorite = SetToBag(favs),
                                           !.Follow = SetToBag(follows)]
                          there == download_shopping_cart(db, user)
                      IN  /\ there.status = out.status
                          /\ there.body = out.body
                          /\ \A row \in DOMAIN JoinCart(db, user) :
                                JoinCart(db, user)[row] = 1
            /\ DOMAIN JoinCart(DB, user) = CartAssociations(user)

\* A list has been downloaded while both users have the same recipe in their
\* carts.
C19_Witness ==
    /\ response.op = "download_shopping_cart"
    /\ response.status = "OK"
    /\ \E pk \in RecipePks :
          \A user \in Users : CopiesIn(<<user, pk>>, Cart) = 1

====
